---- MODULE Spec2Model ----
(***************************************************************************)
(* Model of MoviesStore (movies.store) and the Pagination view's           *)
(* selectPage binding.  The store composes three rxjs pipelines built in   *)
(* its constructor:                                                        *)
(*   - fresh search : combineLatest([searchInput$ | filter(isQueryValid),   *)
(*                    merge(_loadPage$ | startWith(1), searchInput$ | 1)])   *)
(*                    | switchMap(search)                                   *)
(*   - load more    : combineLatest([_searchString$, _loadMore$])           *)
(*                    | switchMap(search(.., last + 1))                     *)
(*   - error        : merge(searchInput$ | switchMap(BadInput after 500ms), *)
(*                    serverError$)                                         *)
(* searchInput$ is _searchString$ | debounceTime(500) | share().            *)
(***************************************************************************)
EXTENDS Integers, Sequences, FiniteSets, TLC

\* ------------------------------------------------------------------ bounds
\* total number of remote calls a behaviour may issue (one more under SpecDeep)
MaxCalls == 3
\* setCurrentPage / selectPage arguments are drawn from 0..MaxPage
MaxPage == 4
\* number of result pages of the query with a long result list (Q_WIDE)
WidePages == 6

\* --------------------------------------------------------------- constants
MIN_CHARACTERS_FOR_SEARCH == 3

SERVER_ERROR == "ServerError"
BAD_INPUT == "BadInput"
NO_ERROR == "none"

\* ------------------------------------------------------------ query strings
\* a query is the sequence of the UTF-16 code units of the string, so that Len
\* is String.prototype.length: "abc" is << 97, 98, 99 >>
Q_EMPTY == <<>>
\* "\tab ": a tab, "ab", a space
Q_SHORT == << 9, 97, 98, 32 >>
\* "abc"
Q_ABC == << 97, 98, 99 >>
\* "abcd"
Q_ABCD == << 97, 98, 99, 100 >>

Queries == {Q_EMPTY, Q_SHORT, Q_ABC, Q_ABCD}

\* "wide": a valid query with a long result list, typed only under SpecStrip
Q_WIDE == << 119, 105, 100, 101 >>

\* the code units String.prototype.trim strips: WhiteSpace (TAB, VT, FF,
\* ZWNBSP and the Unicode space separators SP, NBSP, U+1680, U+2000..U+200A,
\* U+202F, U+205F, U+3000) and LineTerminator (LF, CR, U+2028, U+2029)
WhiteSpace ==
    {9, 11, 12, 65279, 32, 160, 5760, 8239, 8287, 12288} \cup (8192..8202)
    \cup {10, 13, 8232, 8233}

RECURSIVE TrimStart(_)
TrimStart(s) ==
    IF s # <<>> /\ Head(s) \in WhiteSpace THEN TrimStart(Tail(s)) ELSE s

RECURSIVE TrimEnd(_)
TrimEnd(s) ==
    IF s # <<>> /\ s[Len(s)] \in WhiteSpace THEN TrimEnd(SubSeq(s, 1, Len(s) - 1)) ELSE s

\* String.prototype.trim
Trim(s) == TrimEnd(TrimStart(s))

\* function isQueryValid(query)
isQueryValid(query) == Len(Trim(query)) >= MIN_CHARACTERS_FOR_SEARCH

\* --------------------------------------------------------- remote client
\* MoviesApi.search is an external collaborator: a fixed catalogue, stable
\* per query.  Q_ABCD is a valid query that matches nothing.
TotalPagesOf(q) ==
    IF q = Q_ABC THEN 3
    ELSE IF q = Q_WIDE THEN WidePages
    ELSE IF q = Q_SHORT THEN 1
    ELSE 0

MoviesOf(q, p) ==
    IF p >= 1 /\ p <= TotalPagesOf(q)
    THEN << [q |-> q, p |-> p, n |-> 1], [q |-> q, p |-> p, n |-> 2] >>
    ELSE << >>

\* the MoviesPage a successful search({query, page}) resolves to; the field
\* query is not part of MoviesPage, it records which query the page answers
SearchResult(q, p) ==
    [page |-> p, totalPages |-> TotalPagesOf(q), movies |-> MoviesOf(q, p), query |-> q]

\* ------------------------------------------------------------------- state
VARIABLES
    window,          \* _moviesResponses
    error,           \* _error
    noResultsFound,  \* _noResultsFound
    raw,             \* latest value of _searchString$ held by the load-more combineLatest
    pending,         \* debounceTime(500) holds a value (always the latest one, raw[1])
    freshQ,          \* latest value of searchInput$ | filter(isQueryValid) held by combineLatest
    freshPage,       \* latest value of the merged page source held by combineLatest
    moreFired,       \* _loadMore$ has emitted (combineLatest slot filled)
    freshAlive,      \* the fresh-search subscription has not been terminated
    moreAlive,       \* the load-more subscription has not been terminated
    requests,        \* every remote call issued so far, in order of issue
    freshCur,        \* index of the inner call switchMap is subscribed to (fresh search)
    moreCur,         \* index of the inner call switchMap is subscribed to (load more)
    badPending,      \* the delayed BadInput of the error pipeline is armed
    limit,           \* number of remote calls this behaviour may issue (never changes)
    streak           \* run of successful loadMore calls since a window of exactly [page 1]

vars == << window, error, noResultsFound, raw, pending, freshQ, freshPage, moreFired,
           freshAlive, moreAlive, requests, freshCur, moreCur, badPending, limit, streak >>

\* -------------------------------------------------------- derived getters
\* get totalPages
totalPages(w) == IF Len(w) > 0 THEN w[1].totalPages ELSE 0

\* get currentPages
currentPages(w) == [i \in 1..Len(w) |-> w[i].page]

\* get firstOfCurrentPages / lastOfCurrentPages; 0 stands for undefined
firstOfCurrentPages(w) == IF Len(w) > 0 THEN currentPages(w)[1] ELSE 0

lastOfCurrentPages(w) == IF Len(w) > 0 THEN currentPages(w)[Len(w)] ELSE 0

RECURSIVE FlatMovies(_)
FlatMovies(w) == IF w = <<>> THEN <<>> ELSE Head(w).movies \o FlatMovies(Tail(w))

\* get movies
movies(w) == FlatMovies(w)

\* (this.lastOfCurrentPages ?? 1) + 1
NextPageToLoad(w) == (IF Len(w) > 0 THEN lastOfCurrentPages(w) ELSE 1) + 1

\* Array.from(new Set(...)): the values in order of first insertion
RECURSIVE InsertionOrder(_, _)
InsertionOrder(values, seen) ==
    IF values = <<>> THEN <<>>
    ELSE IF Head(values) \in seen THEN InsertionOrder(Tail(values), seen)
    ELSE << Head(values) >> \o InsertionOrder(Tail(values), seen \cup {Head(values)})

\* get pagesToPickFrom.  With an empty window currentPages[0] is undefined and
\* the four values computed from it are NaN, which the filter never keeps.
pagesToPickFrom(w) ==
    LET cp == currentPages(w)
        tp == totalPages(w)
        pages == IF Len(cp) = 0
                 THEN << 1, 2, tp - 1, tp >>
                 ELSE << 1, 2, cp[1] - 2, cp[1] - 1 >> \o cp
                      \o << cp[Len(cp)] + 1, cp[Len(cp)] + 2, tp - 1, tp >>
        InRange(page) == page > 0 /\ page <= tp
    IN SelectSeq(InsertionOrder(pages, {}), InRange)

\* ------------------------------------------------------ pipeline operators
\* what kind of input a committed value is for the pipelines
InputClass(val) ==
    IF isQueryValid(val) THEN "valid"
    ELSE IF Len(val) = 0 THEN "empty"
    ELSE "short"

\* the tag of the calls a committed input issues: its class, with an empty
\* input committed while BadInput is shown told apart ("emptied")
CommitTag(val, err) ==
    IF InputClass(val) = "empty" /\ err = BAD_INPUT THEN "emptied" ELSE InputClass(val)

\* a call this._moviesApi.search({query: q, page: p}) made by pipeline pipe;
\* by records the event whose emission the projection of switchMap ran for:
\* a committed input ("valid", "short", "empty", "emptied"), _loadPage$ ("page"),
\* _loadMore$ ("more") or a raw _searchString$ value ("key")
NewRequest(pipe, q, p, by) ==
    [pipe |-> pipe, q |-> q, page |-> p, by |-> by, st |-> "inflight"]

\* a call that has settled keeps its pipeline and how it ended: "applied",
\* "failed" (its error reached the handler), or, for a call switchMap had
\* already unsubscribed from, "dropped" (resolved) and "lost" (rejected)
Settled(r, st) ==
    [pipe |-> r.pipe, q |-> <<>>, page |-> 0, by |-> "", st |-> st]

\* switchMap: a response is delivered only from the inner call it is still
\* subscribed to
DeliveredMut(cur, i) == TRUE
Delivered(cur, i) == i = cur

\* fresh-search next handler: clear, push
FreshNextMut(w, data) == << >>
FreshNext(w, data) == << data >>

\* fresh-search next handler: moviesData.movies.length === 0
NoResultsMut(data) == Len(data.movies) > 0
NoResults(data) == Len(data.movies) = 0

\* load-more next handler: push
MoreNext(w, data) == Append(w, data)

\* neither next handler assigns _error
ErrorAfterResponseMut(err) == NO_ERROR
ErrorAfterResponse(err) == err

\* error handlers: serverError$.next(SERVER_ERROR) reaches the error subscriber
ErrorAfterFailureMut(err) == err
ErrorAfterFailure(err) == SERVER_ERROR

\* error pipeline, first branch: query.length === 0 || isQueryValid(query)
ClearsErrorMut(query) == isQueryValid(query)
ClearsError(query) == Len(query) = 0 \/ isQueryValid(query)

\* the run counted by streak starts in a window that is exactly [page 1] of a query
StreakStart(w) ==
    IF Len(w) = 1 /\ w[1] = SearchResult(w[1].query, 1)
    THEN [q |-> w[1].query, n |-> 0, mid |-> FALSE]
    ELSE [q |-> <<>>, n |-> -1, mid |-> FALSE]

\* -------------------------------------------------------------------- Init
\* the store as its constructor leaves it
Constructed ==
    /\ window = <<>>
    /\ error = NO_ERROR
    /\ noResultsFound = FALSE
    /\ raw = <<>>
    /\ pending = FALSE
    /\ freshQ = <<>>
    /\ freshPage = 1
    /\ moreFired = FALSE
    /\ freshAlive = TRUE
    /\ moreAlive = TRUE
    /\ requests = <<>>
    /\ freshCur = 0
    /\ moreCur = 0
    /\ badPending = FALSE
    /\ streak = StreakStart(<<>>)

Init == Constructed /\ limit = MaxCalls

InitDeep == Constructed /\ limit = MaxCalls + 1

\* ----------------------------------------------------------------- actions
\* searchForString(val): _searchString$.next(val).  The value restarts the
\* debounce and, being a source of the load-more combineLatest, re-emits there.
SearchForString(val) ==
    /\ LET emits == moreAlive /\ moreFired
           reqs == IF emits
                   THEN Append(requests, NewRequest("more", val, NextPageToLoad(window), "key"))
                   ELSE requests
       IN /\ Len(requests) + 1 <= limit
          /\ requests' = reqs
          /\ moreCur' = IF emits THEN Len(reqs) ELSE moreCur
    /\ raw' = << val >>
    /\ pending' = TRUE
    /\ streak' = StreakStart(window)
    /\ UNCHANGED << limit, window, error, noResultsFound, freshQ, freshPage, moreFired,
                    freshAlive, moreAlive, freshCur, badPending >>

\* the debounce timer fires: searchInput$ emits to its three subscribers in
\* order of subscription: filter(isQueryValid), map(() => 1), error switchMap.
\* The delayed BadInput armed by the previous emission is due before any
\* debounce timer armed after it, so it has fired by now.
Commit ==
    /\ pending
    /\ ~badPending
    /\ LET val == raw[1]
           passes == freshAlive /\ isQueryValid(val)
           fq1 == IF passes THEN << val >> ELSE freshQ
           reqs1 == IF passes
                    THEN Append(requests, NewRequest("fresh", val, freshPage, CommitTag(val, error)))
                    ELSE requests
           emits2 == freshAlive /\ fq1 # <<>>
           reqs2 == IF emits2
                    THEN Append(reqs1, NewRequest("fresh", fq1[1], 1, CommitTag(val, error)))
                    ELSE reqs1
       IN /\ Len(reqs2) <= limit
          /\ freshQ' = fq1
          /\ freshPage' = IF freshAlive THEN 1 ELSE freshPage
          /\ requests' = reqs2
          /\ freshCur' = IF Len(reqs2) > Len(requests) THEN Len(reqs2) ELSE freshCur
          /\ error' = IF ClearsError(val) THEN NO_ERROR ELSE error
          /\ badPending' = ~ClearsError(val)
    /\ pending' = FALSE
    /\ streak' = StreakStart(window)
    /\ UNCHANGED << limit, window, noResultsFound, raw, moreFired, freshAlive, moreAlive, moreCur >>

\* the delay(500) of the BadInput value elapses
BadInputFire ==
    /\ badPending
    /\ badPending' = FALSE
    /\ error' = BAD_INPUT
    /\ streak' = StreakStart(window)
    /\ UNCHANGED << limit, window, noResultsFound, raw, pending, freshQ, freshPage, moreFired,
                    freshAlive, moreAlive, requests, freshCur, moreCur >>

\* setCurrentPage(page): _loadPage$.next(page)
SetCurrentPage(page) ==
    /\ LET emits == freshAlive /\ freshQ # <<>>
           reqs == IF emits
                   THEN Append(requests, NewRequest("fresh", freshQ[1], page, "page"))
                   ELSE requests
       IN /\ Len(requests) + 1 <= limit
          /\ requests' = reqs
          /\ freshCur' = IF emits THEN Len(reqs) ELSE freshCur
    /\ freshPage' = IF freshAlive THEN page ELSE freshPage
    /\ streak' = StreakStart(window)
    /\ UNCHANGED << limit, window, error, noResultsFound, raw, pending, freshQ, moreFired,
                    freshAlive, moreAlive, moreCur, badPending >>

\* Pagination.selectPage(page); the view renders only a non-empty window
SelectPage(page) ==
    /\ Len(currentPages(window)) # 0
    /\ IF page > 0 /\ page <= totalPages(window)
       THEN SetCurrentPage(page)
       ELSE /\ streak' = StreakStart(window)
            /\ UNCHANGED << limit, window, error, noResultsFound, raw, pending, freshQ, freshPage,
                            moreFired, freshAlive, moreAlive, requests, freshCur, moreCur,
                            badPending >>

\* PageItem comes from pagination.styled: a disabled item ignores the click,
\* any other runs its onClick
RunsOnClick(disabled) == ~disabled

\* Array.prototype.includes
Includes(values, v) == \E k \in DOMAIN values : values[k] = v

\* the page Pagination.selectPage(page) passes to setCurrentPage; 0 stands
\* for no call
PagePassed(w, page) == IF page > 0 /\ page <= totalPages(w) THEN page ELSE 0

\* the page a click on Previous passes to setCurrentPage; 0 stands for no call
PreviousPassed(w) ==
    IF RunsOnClick(Includes(currentPages(w), 1))
    THEN PagePassed(w, (IF Len(w) > 0 THEN firstOfCurrentPages(w) ELSE 1) - 1)
    ELSE 0

\* the page a click on Next passes to setCurrentPage; 0 stands for no call
NextPassed(w) ==
    IF RunsOnClick(Includes(currentPages(w), totalPages(w)))
    THEN PagePassed(w, (IF Len(w) > 0 THEN lastOfCurrentPages(w) ELSE 1) + 1)
    ELSE 0

\* a click on Previous; the view renders only a non-empty window
ClickPrevious ==
    /\ Len(currentPages(window)) # 0
    /\ SelectPage(IF RunsOnClick(Includes(currentPages(window), 1))
                  THEN firstOfCurrentPages(window) - 1
                  ELSE 0)

\* a click on Next
ClickNext ==
    /\ Len(currentPages(window)) # 0
    /\ SelectPage(IF RunsOnClick(Includes(currentPages(window), totalPages(window)))
                  THEN lastOfCurrentPages(window) + 1
                  ELSE 0)

\* loadMore(): _loadMore$.next()
LoadMore ==
    /\ LET emits == moreAlive /\ raw # <<>>
           reqs == IF emits
                   THEN Append(requests, NewRequest("more", raw[1], NextPageToLoad(window), "more"))
                   ELSE requests
       IN /\ Len(requests) + 1 <= limit
          /\ requests' = reqs
          /\ moreCur' = IF emits THEN Len(reqs) ELSE moreCur
          /\ streak' = IF emits /\ streak.n >= 0 /\ ~streak.mid
                       THEN [streak EXCEPT !.mid = TRUE]
                       ELSE StreakStart(window)
    /\ moreFired' = (moreFired \/ moreAlive)
    /\ UNCHANGED << limit, window, error, noResultsFound, raw, pending, freshQ, freshPage,
                    freshAlive, moreAlive, freshCur, badPending >>

\* the remote call i resolves
RespondOk(i) ==
    /\ i \in DOMAIN requests
    /\ requests[i].st = "inflight"
    /\ LET r == requests[i]
           data == SearchResult(r.q, r.page)
           fresh == r.pipe = "fresh" /\ freshAlive /\ Delivered(freshCur, i)
           more == r.pipe = "more" /\ moreAlive /\ Delivered(moreCur, i)
       IN /\ window' = IF fresh THEN FreshNext(window, data)
                       ELSE IF more THEN MoreNext(window, data)
                       ELSE window
          /\ noResultsFound' = IF fresh THEN NoResults(data) ELSE noResultsFound
          /\ requests' = [requests EXCEPT ![i] = Settled(r, IF fresh \/ more THEN "applied" ELSE "dropped")]
          /\ error' = IF fresh \/ more THEN ErrorAfterResponse(error) ELSE error
          /\ streak' = IF more /\ streak.mid
                       THEN [streak EXCEPT !.n = @ + 1, !.mid = FALSE]
                       ELSE StreakStart(window')
    /\ UNCHANGED << limit, raw, pending, freshQ, freshPage, moreFired, freshAlive, moreAlive,
                    freshCur, moreCur, badPending >>

\* the remote call i fails; an error of the inner call passes through switchMap
\* to the subscriber's error handler and ends the subscription
RespondFail(i) ==
    /\ i \in DOMAIN requests
    /\ requests[i].st = "inflight"
    /\ LET r == requests[i]
           fresh == r.pipe = "fresh" /\ freshAlive /\ Delivered(freshCur, i)
           more == r.pipe = "more" /\ moreAlive /\ Delivered(moreCur, i)
       IN /\ error' = IF fresh \/ more THEN ErrorAfterFailure(error) ELSE error
          /\ freshAlive' = (freshAlive /\ ~fresh)
          /\ moreAlive' = (moreAlive /\ ~more)
          /\ requests' = [requests EXCEPT ![i] = Settled(r, IF fresh \/ more THEN "failed" ELSE "lost")]
    /\ streak' = StreakStart(window)
    /\ UNCHANGED << limit, window, noResultsFound, raw, pending, freshQ, freshPage, moreFired,
                    freshCur, moreCur, badPending >>

Next ==
    \/ \E val \in Queries : SearchForString(val)
    \/ Commit
    \/ BadInputFire
    \/ \E page \in 0..MaxPage : SetCurrentPage(page)
    \/ \E page \in 0..MaxPage : SelectPage(page)
    \/ LoadMore
    \/ \E i \in 1..(MaxCalls + 1) : RespondOk(i)
    \/ \E i \in 1..(MaxCalls + 1) : RespondFail(i)

Spec == Init /\ [][Next]_vars

\* the same store with room for one more remote call
SpecDeep == InitDeep /\ [][Next]_vars

\* the store while every call resolves and only typing and page selection
\* happen, with room for two more remote calls
InitTyping == Constructed /\ limit = MaxCalls + 2

NextTyping ==
    \/ \E val \in Queries : SearchForString(val)
    \/ Commit
    \/ BadInputFire
    \/ \E page \in 0..MaxPage : SetCurrentPage(page)
    \/ \E i \in 1..(MaxCalls + 2) : RespondOk(i)

SpecTyping == InitTyping /\ [][NextTyping]_vars

\* the store browsing the long result list of Q_WIDE through the Pagination
\* view and loadMore, every call resolving
NextStrip ==
    \/ SearchForString(Q_WIDE)
    \/ Commit
    \/ \E page \in 1..WidePages : SelectPage(page)
    \/ LoadMore
    \/ \E i \in 1..(MaxCalls + 1) : RespondOk(i)

SpecStrip == InitDeep /\ [][NextStrip]_vars

\* the store driven through the views only: every page selection passes
\* through the Pagination view
NextView ==
    \/ \E val \in Queries : SearchForString(val)
    \/ Commit
    \/ BadInputFire
    \/ \E page \in 0..MaxPage : SelectPage(page)
    \/ ClickPrevious
    \/ ClickNext
    \/ LoadMore
    \/ \E i \in 1..MaxCalls : RespondOk(i)
    \/ \E i \in 1..MaxCalls : RespondFail(i)

SpecView == Init /\ [][NextView]_vars

\* ------------------------------------------------------------------ claims
\* steps, told apart by what they change
\* the debounce timer fired: only Commit resets pending
CommitStep == pending /\ ~pending'

\* the calls issued by the step
NewCalls == {i \in DOMAIN requests' : i > Len(requests)}

\* call i was in flight and its response arrived in the step
Resolved(i) == requests[i].st = "inflight" /\ requests'[i].st \in {"applied", "dropped"}

Rejected(i) == requests[i].st = "inflight" /\ requests'[i].st \in {"failed", "lost"}

\* a newer call of the same pipeline was issued before the response of call i
Superseded(i) == \E j \in DOMAIN requests : j > i /\ requests[j].pipe = requests[i].pipe

\* the movies of pages 1..k of query q, in page order
RECURSIVE ConcatPages(_, _)
ConcatPages(q, k) == IF k = 0 THEN <<>> ELSE ConcatPages(q, k - 1) \o MoviesOf(q, k)

\* C1: every commit of a valid query issues exactly one remote call, for
\* (query, page 1).
C1_OneCallPerValidCommit ==
    [][(CommitStep /\ isQueryValid(raw[1])) =>
         /\ Cardinality(NewCalls) = 1
         /\ \A i \in NewCalls : requests'[i].q = raw[1] /\ requests'[i].page = 1]_vars

\* C2: a fresh-search response that arrives after a newer fresh-search call
\* was issued is not applied: it changes neither the window nor
\* noResultsFound; only the response of the latest call is applied.
C2_LatestWins ==
    [][\A i \in DOMAIN requests :
         (requests[i].pipe = "fresh" /\ Resolved(i) /\ Superseded(i)) =>
             /\ window' = window
             /\ noResultsFound' = noResultsFound
             /\ requests'[i].st = "dropped"]_vars

\* C2 witness: the response of a superseded fresh-search call has arrived and
\* the window holds the page a later setCurrentPage asked for.
C2_Witness ==
    /\ \E i \in DOMAIN requests : requests[i].pipe = "fresh" /\ requests[i].st = "dropped"
    /\ \E j \in DOMAIN requests : requests[j].pipe = "fresh" /\ requests[j].st = "applied"
    /\ Len(window) = 1
    /\ window[1].page = 2

\* C3: a window that starts with a page of a valid query holds pages of that
\* single query: page numbers strictly ascending, one totalPages, one query.
C3_SingleQueryWindow ==
    (Len(window) > 0 /\ isQueryValid(window[1].query)) =>
        \A i, j \in DOMAIN window :
            i < j => /\ window[i].page < window[j].page
                     /\ window[i].totalPages = window[j].totalPages
                     /\ window[i].query = window[j].query

\* C4: a load-more call is issued only by loadMore(), never by a
\* searchForString or setCurrentPage event, and once results are loaded it
\* asks for (the query of the window, lastOfCurrentPages + 1).
C4_LoadMoreOnlyOnLoadMore ==
    [][\A i \in NewCalls :
         requests'[i].pipe = "more" =>
             /\ requests'[i].by = "more"
             /\ Len(window) > 0 =>
                    /\ requests'[i].q = window[Len(window)].query
                    /\ requests'[i].page = lastOfCurrentPages(window) + 1]_vars

\* C5: after N consecutive successful loadMore() calls from a window that is
\* exactly [page 1] of a query, the page numbers are 1..N+1 and the movies are
\* those of pages 1..N+1 of that query, in page order.
C5_MonotonicAppend ==
    (streak.n >= 1 /\ ~streak.mid) =>
        /\ currentPages(window) = [p \in 1..(streak.n + 1) |-> p]
        /\ movies(window) = ConcatPages(streak.q, streak.n + 1)

\* C6: with results loaded, selecting a page n < 1 or n > totalPages issues
\* no remote call, whether through the view or through setCurrentPage.
C6_OutOfRangePageIssuesNoCall ==
    [][\A i \in NewCalls :
         (requests'[i].by = "page" /\ Len(window) > 0) =>
             (requests'[i].page >= 1 /\ requests'[i].page <= totalPages(window))]_vars

\* C7: whatever failed before, committing a valid query issues its remote call.
C7_ValidCommitAlwaysSearches ==
    [][(CommitStep /\ isQueryValid(raw[1])) => NewCalls # {}]_vars

\* C8 as stated: whenever a remote call of either pipeline fails, error
\* becomes ServerError and the window stays as it was.
C8_EveryFailureSurfaces ==
    [][\A i \in DOMAIN requests :
         Rejected(i) => (error' = SERVER_ERROR /\ window' = window)]_vars

\* C8 amended: whenever a remote call fails that no newer call of its
\* pipeline has superseded, error becomes ServerError and the window, hence
\* movies, currentPages and totalPages, stays as it was.
C8_DeliveredFailureSurfaces ==
    [][\A i \in DOMAIN requests :
         (Rejected(i) /\ ~Superseded(i)) =>
             /\ error' = SERVER_ERROR
             /\ window' = window
             /\ movies(window') = movies(window)
             /\ currentPages(window') = currentPages(window)
             /\ totalPages(window') = totalPages(window)]_vars

\* C8 witness: a call failed with results loaded; ServerError is shown and the
\* results are still there.
C8_Witness ==
    /\ \E i \in DOMAIN requests : requests[i].st = "failed"
    /\ error = SERVER_ERROR
    /\ Len(window) > 0

\* C9: a committed non-empty input of trimmed length < 3 ends in BadInput, and
\* no response of a call it issued modifies a window of in-range pages loaded
\* for the committed valid query (by that query, by setCurrentPage or by
\* loadMore).
C9_ShortCommitKeepsWindow ==
    [][/\ (badPending /\ ~badPending') => error' = BAD_INPUT
       /\ \A i \in DOMAIN requests :
            (/\ Resolved(i)
             /\ requests[i].by = "short"
             /\ Len(window) > 0
             /\ \A k \in DOMAIN window :
                    /\ window[k].query = requests[i].q
                    /\ window[k].page \in 1..totalPages(window)) =>
                window' = window]_vars

\* C10: committing an input of trimmed length < 3 issues no remote call.
C10_InvalidCommitIssuesNoCall ==
    [][(CommitStep /\ ~isQueryValid(raw[1])) => NewCalls = {}]_vars

\* a window of in-range pages, all of query q
LoadedFor(q) ==
    /\ Len(window) > 0
    /\ \A k \in DOMAIN window :
           /\ window[k].query = q
           /\ window[k].page \in 1..totalPages(window)

\* C11: an empty input committed while BadInput is shown clears the error in
\* the commit step itself, and no response of a call that commit issued
\* modifies a loaded window.
C11_EmptyCommitClearsAndKeepsWindow ==
    [][/\ (CommitStep /\ Len(raw[1]) = 0 /\ error = BAD_INPUT) => error' = NO_ERROR
       /\ \A i \in DOMAIN requests :
            (Resolved(i) /\ requests[i].by = "emptied" /\ LoadedFor(requests[i].q)) =>
                window' = window]_vars

\* a typed text is replaced by a different one before the debounce elapsed
SupersedeStep == pending /\ pending' /\ raw' # raw

\* C12: a text superseded before the debounce elapsed has not been sent to the
\* remote client: with results of the committed query loaded, the latest
\* load-more call, issued at or after the moment the pending (valid, not the
\* committed) text was typed, does not carry that text.
C12_SupersededTextNeverSent ==
    [][(/\ SupersedeStep
        /\ isQueryValid(raw[1])
        /\ freshQ # <<>>
        /\ LoadedFor(freshQ[1])
        /\ raw[1] # freshQ[1]
        /\ moreAlive
        /\ moreCur > 0
        /\ requests[moreCur].st = "inflight") =>
            requests[moreCur].q # raw[1]]_vars

\* setCurrentPage(n) can act and issues the call (q, n) of the committed query
PageCallIssued(n) ==
    ENABLED (/\ SetCurrentPage(n)
             /\ requests' = Append(requests, NewRequest("fresh", freshQ[1], n, "page")))

\* C13: once a valid query q has been committed, setCurrentPage(n) with n in
\* range issues a remote call for (q, n); and when that call resolves with no
\* later fresh-search trigger, the window becomes exactly [page n of q].
C13_PageSelectionSearchesAndReplaces ==
    /\ [](freshQ # <<>> /\ Len(requests) < limit =>
            \A n \in 1..totalPages(window) : PageCallIssued(n))
    /\ [][\A i \in DOMAIN requests :
            (Resolved(i) /\ requests[i].by = "page" /\ i = freshCur) =>
                window' = << SearchResult(requests[i].q, requests[i].page) >>]_vars

\* the page numbers held in the window
PagesIn(w) == {w[k].page : k \in DOMAIN w}

\* C14: a page selection of a page p already in the window (all of whose pages
\* are in-range pages of the selected query), once its call has succeeded,
\* leaves movies and totalPages as they were.
C14_SelectingLoadedPageIsIdempotent ==
    [][\A i \in DOMAIN requests :
         (/\ Resolved(i)
          /\ requests[i].by = "page"
          /\ LoadedFor(requests[i].q)
          /\ requests[i].page \in PagesIn(window)) =>
             /\ movies(window') = movies(window)
             /\ totalPages(window') = totalPages(window)]_vars

\* the pages the strip is specified to offer
StripPages(w) ==
    LET cp == currentPages(w)
        tp == totalPages(w)
        around == IF Len(cp) = 0 THEN {}
                  ELSE {cp[1] - 2, cp[1] - 1, cp[Len(cp)] + 1, cp[Len(cp)] + 2}
                       \cup PagesIn(w)
    IN ({1, 2, tp - 1, tp} \cup around) \cap (1..tp)

\* C15: pagesToPickFrom lists exactly the pages 1, 2, lowest-2, lowest-1, the
\* current pages, highest+1, highest+2, totalPages-1, totalPages that lie in
\* 1..totalPages, each once, in ascending order.
C15_StripIsAscendingSet ==
    LET strip == pagesToPickFrom(window)
    IN /\ {strip[k] : k \in DOMAIN strip} = StripPages(window)
       /\ \A j, k \in DOMAIN strip : j < k => strip[j] < strip[k]

\* C16: BadInput is shown or armed only while the most recently committed
\* input is non-empty with trimmed length below 3: it is armed only by the
\* commit of such an input, shown only when the armed delay elapses, and the
\* commit of a valid or empty input leaves it neither shown nor armed.
C16_BadInputOnlyForShortInput ==
    /\ []((error = BAD_INPUT \/ badPending) /\ ~pending =>
            Len(raw[1]) > 0 /\ Len(Trim(raw[1])) < MIN_CHARACTERS_FOR_SEARCH)
    /\ [][/\ (CommitStep /\ (isQueryValid(raw[1]) \/ Len(raw[1]) = 0)) =>
                error' # BAD_INPUT /\ ~badPending'
          /\ (badPending' /\ ~badPending) =>
                CommitStep /\ Len(raw[1]) > 0 /\ ~isQueryValid(raw[1])
          /\ (error' = BAD_INPUT /\ error # BAD_INPUT) =>
                badPending /\ ~badPending' /\ ~CommitStep]_vars

\* C16 witness: BadInput is shown for a committed short input after a valid
\* query had been committed and searched
C16_Witness ==
    /\ error = BAD_INPUT
    /\ ~pending
    /\ InputClass(raw[1]) = "short"
    /\ freshQ # <<>>
    /\ Len(window) > 0

\* C17: the step in which a remote call resolves, applied as a fresh-search
\* result, appended as a load-more result or dropped, leaves error as it was.
C17_ResponseKeepsError ==
    [][\A i \in DOMAIN requests : Resolved(i) => error' = error]_vars

\* C17 witness: a failure of one pipeline is shown while the window holds a
\* page that a resolved call of the other pipeline delivered
C17_Witness ==
    /\ error = SERVER_ERROR
    /\ Len(window) > 0
    /\ \E i, j \in DOMAIN requests :
          /\ requests[i].st = "applied"
          /\ requests[j].st = "failed"
          /\ requests[i].pipe # requests[j].pipe

\* a fresh-search response has been applied
FreshApplied == \E i \in DOMAIN requests : requests[i].pipe = "fresh" /\ requests[i].st = "applied"

\* C18: noResultsFound is false until a fresh-search response is applied and
\* from then on tells whether the latest applied one (the first page of the
\* window) had no items; only the step applying a fresh-search response
\* changes it.
C18_NoResultsTracksLatestFreshResponse ==
    /\ [](noResultsFound = (FreshApplied /\ Len(window[1].movies) = 0))
    /\ [][noResultsFound' # noResultsFound =>
            \E i \in DOMAIN requests :
               Resolved(i) /\ requests[i].pipe = "fresh" /\ requests'[i].st = "applied"]_vars

\* C18 witness: a fresh-search response without items was applied and a
\* load-more response was appended after it
C18_Witness ==
    /\ noResultsFound
    /\ FreshApplied
    /\ Len(window) > 1

\* C19: with the Pagination view rendered over a window that reports at least
\* one page of results, a click on Previous passes nothing
\* to setCurrentPage while page 1 is in the window and firstOfCurrentPages - 1
\* otherwise; a click on Next passes nothing while page totalPages is in the
\* window and lastOfCurrentPages + 1 otherwise; a page passed lies in
\* 1..totalPages.
C19_PreviousNextPassNeighbourOrNothing ==
    (Len(window) > 0 /\ totalPages(window) > 0) =>
        /\ PreviousPassed(window) =
              IF 1 \in PagesIn(window) THEN 0 ELSE firstOfCurrentPages(window) - 1
        /\ NextPassed(window) =
              IF totalPages(window) \in PagesIn(window) THEN 0
              ELSE lastOfCurrentPages(window) + 1
        /\ PreviousPassed(window) \in 0..totalPages(window)
        /\ NextPassed(window) \in 0..totalPages(window)

\* C20: no step takes a non-empty window to an empty one.
C20_WindowStaysNonEmpty ==
    [][Len(window) > 0 => Len(window') > 0]_vars

\* C20 witness: a second fresh-search response was applied, clearing and
\* refilling the window the first one had filled
C20_Witness ==
    /\ Len(window) > 0
    /\ \E i, j \in DOMAIN requests :
          /\ i < j
          /\ requests[i].pipe = "fresh" /\ requests[i].st = "applied"
          /\ requests[j].pipe = "fresh" /\ requests[j].st = "applied"

====
